---- MODULE Spec2Model ----
(***************************************************************************)
(* Model of the debate council engine (src/council/engine.py): the vote    *)
(* parsing of _prompt_for_vote, _consensus_from_votes, _aggregate_ranks    *)
(* and the round loop of run_debate, with the callers' configuration       *)
(* (src/council/cli.py, src/council/interactive.py, src/web/server.py).    *)
(***************************************************************************)
EXTENDS Integers, Sequences, FiniteSets, TLC

\* ------------------------------------------------------------------------
\* Bounds of the model
\* ------------------------------------------------------------------------
\* longest roster handed to run_debate
MaxAgents == 3
\* largest min_iterations / max_iterations of a DebateConfig
MaxRounds == 2
\* longest raw vote reply (in characters) given to the vote parser alone
MaxRawLen == 3
\* last second of the clock autosave_json reads
MaxClock == 2
\* calls of autosave_json observed: one per round, and the final one
MaxSaves == MaxRounds + 1

\* ------------------------------------------------------------------------
\* Small helpers
\* ------------------------------------------------------------------------
Range(s) == {s[k] : k \in 1..Len(s)}

SeqsUpTo(S, n) == UNION {[1..m -> S] : m \in 0..n}

NoDuplicates(s) == \A a, b \in 1..Len(s) : a # b => s[a] # s[b]

\* Python's None
None == "None"

\* ------------------------------------------------------------------------
\* Agents.  Personality.name is a string; a name is modelled by a one-letter
\* string and Text(name) is its sequence of characters.
\* ------------------------------------------------------------------------
AgentNames == {"X", "Y", "Z", "W"}

Text(name) == <<name>>

\* default_personalities(), in its order
NameOrder == <<"X", "Y", "Z", "W">>

\* Rosters the callers build: the first n default personalities (a selection,
\* possibly empty, web/server.py and interactive.py), and the wizard's list of
\* numbers with the first number typed twice ("1,1,2": interactive.py
\* _choose_personalities keeps repeats).
Rosters ==
    {SubSeq(NameOrder, 1, n) : n \in 0..MaxAgents}
    \cup {<<NameOrder[1]>> \o SubSeq(NameOrder, 1, n) : n \in 1..(MaxAgents - 1)}

\* the rosters handed to run_debate: those, and all default personalities
\* (cli.py passes default_personalities() whole)
DebateRosters == Rosters \cup {NameOrder}

\* ------------------------------------------------------------------------
\* _prompt_for_vote: parsing of the raw reply (engine.py lines 107-121)
\* ------------------------------------------------------------------------
\* characters of a reply: name letters, a foreign letter, the separators
RawChars == AgentNames \cup {"Q", ",", " ", "\n"}

Whitespace == {" ", "\n"}

RECURSIVE LStrip(_)
LStrip(s) ==
    IF s = <<>> THEN s
    ELSE IF Head(s) \in Whitespace THEN LStrip(Tail(s)) ELSE s

RECURSIVE RStrip(_)
RStrip(s) ==
    IF s = <<>> THEN s
    ELSE IF s[Len(s)] \in Whitespace THEN RStrip(SubSeq(s, 1, Len(s) - 1)) ELSE s

\* str.strip()
Strip(s) == RStrip(LStrip(s))

\* str.replace("\n", ",")
ReplaceNewlines(s) == [k \in 1..Len(s) |-> IF s[k] = "\n" THEN "," ELSE s[k]]

\* str.split(","): the pieces between commas, empty pieces included
RECURSIVE SplitAcc(_, _, _)
SplitAcc(s, cur, acc) ==
    IF s = <<>> THEN Append(acc, cur)
    ELSE IF Head(s) = "," THEN SplitAcc(Tail(s), <<>>, Append(acc, cur))
    ELSE SplitAcc(Tail(s), Append(cur, Head(s)), acc)

SplitCommas(s) == SplitAcc(s, <<>>, <<>>)

\* the pieces kept as they are, without n.strip()
TokensUntrimmed(raw) ==
    SelectSeq(SplitCommas(ReplaceNewlines(Strip(raw))), LAMBDA t : Strip(t) # <<>>)

\* names = [n.strip() for n in raw.replace("\n", ",").split(",") if n.strip()]
Tokens(raw) ==
    LET parts == SplitCommas(ReplaceNewlines(Strip(raw)))
        stripped == [k \in 1..Len(parts) |-> Strip(parts[k])]
    IN  SelectSeq(stripped, LAMBDA t : t # <<>>)

\* n in authors
IsAuthor(tok, authors) == \E k \in 1..Len(authors) : Text(authors[k]) = tok

AuthorOf(tok, authors) == CHOOSE a \in Range(authors) : Text(a) = tok

\* KeepValid without the `n not in seen` test: a repeated name is kept again.
KeepValidNoDedup(names, authors, valid) ==
    LET RECURSIVE Go(_, _)
        Go(ns, v) ==
            IF ns = <<>> THEN v
            ELSE IF IsAuthor(Head(ns), authors)
                 THEN Go(Tail(ns), Append(v, AuthorOf(Head(ns), authors)))
                 ELSE Go(Tail(ns), v)
    IN  Go(names, valid)

\* for n in names: if n in authors and n not in seen: valid.append(n); seen.add(n)
RECURSIVE KeepValid(_, _, _)
KeepValid(names, authors, valid) ==
    IF names = <<>> THEN valid
    ELSE LET n == Head(names) IN
         IF IsAuthor(n, authors) /\ AuthorOf(n, authors) \notin Range(valid)
         THEN KeepValid(Tail(names), authors, Append(valid, AuthorOf(n, authors)))
         ELSE KeepValid(Tail(names), authors, valid)

\* for a in authors: if a not in seen: valid.append(a)    (seen is not updated)
AppendMissing(valid, authors) ==
    valid \o SelectSeq(authors, LAMBDA a : a \notin Range(valid))

\* the ranking _prompt_for_vote returns for a reply text and the round's authors
SanitizeVote(raw, authors) ==
    AppendMissing(KeepValid(Tokens(raw), authors, <<>>), authors)

\* ------------------------------------------------------------------------
\* _consensus_from_votes (engine.py lines 124-140)
\* ------------------------------------------------------------------------
\* A threshold is a fraction <<numerator, denominator>>; the CLI and wizard
\* presets are 0.5, 2.0/3.0 and 1.0, DebateConfig's default is 0.6 and the
\* websocket handler's default is 0.66.
Majority == <<1, 2>>
Supermajority == <<2, 3>>
Unanimity == <<1, 1>>
PresetThresholds == {Majority, Supermajority, Unanimity}
Thresholds == PresetThresholds \cup {<<3, 5>>, <<33, 50>>}

\* the first places of the votes that have a non-empty ranking, in vote order
FirstPlaces(votes) ==
    LET ranked == SelectSeq(votes, LAMBDA v : v.ranking # <<>>)
    IN  [k \in 1..Len(ranked) |-> ranked[k].ranking[1]]

\* first_place_counts[name]
FirstPlaceCount(votes, name) ==
    Cardinality({k \in 1..Len(FirstPlaces(votes)) : FirstPlaces(votes)[k] = name})

\* keys of a dict in insertion order: first occurrences of the inserted keys
RECURSIVE InsertionOrder(_, _)
InsertionOrder(keys, acc) ==
    IF keys = <<>> THEN acc
    ELSE IF Head(keys) \in Range(acc) THEN InsertionOrder(Tail(keys), acc)
    ELSE InsertionOrder(Tail(keys), Append(acc, Head(keys)))

\* the scan with `cnt >= top_count`: the last of the tied candidates wins
RECURSIVE TopScanLastWins(_, _, _, _)
TopScanLastWins(keys, votes, top_candidate, top_count) ==
    IF keys = <<>> THEN <<top_candidate, top_count>>
    ELSE IF FirstPlaceCount(votes, Head(keys)) >= top_count
         THEN TopScanLastWins(Tail(keys), votes, Head(keys),
                              FirstPlaceCount(votes, Head(keys)))
         ELSE TopScanLastWins(Tail(keys), votes, top_candidate, top_count)

\* for k, cnt in first_place_counts.items(): if cnt > top_count: top = k, cnt
RECURSIVE TopScan(_, _, _, _)
TopScan(keys, votes, top_candidate, top_count) ==
    IF keys = <<>> THEN <<top_candidate, top_count>>
    ELSE IF FirstPlaceCount(votes, Head(keys)) > top_count
         THEN TopScan(Tail(keys), votes, Head(keys), FirstPlaceCount(votes, Head(keys)))
         ELSE TopScan(Tail(keys), votes, top_candidate, top_count)

\* truth value of `top_candidate` in `if top_candidate and ...`
Truthy(name) == name # None /\ Text(name) # <<>>

\* RatioAtLeast with > for >=
RatioAbove(count, total, threshold) ==
    count * threshold[2] > threshold[1] * total

\* (top_count / total) >= threshold, on fractions
RatioAtLeast(count, total, threshold) ==
    count * threshold[2] >= threshold[1] * total

\* _consensus_from_votes ending with `return False, None`
ConsensusDropsFrontRunner(votes, threshold) ==
    LET total == Len(votes)
        top == TopScan(InsertionOrder(FirstPlaces(votes), <<>>), votes, None, 0)
    IN  IF total # 0 /\ Truthy(top[1]) /\ RatioAtLeast(top[2], total, threshold)
        THEN [reached |-> TRUE, candidate |-> top[1]]
        ELSE [reached |-> FALSE, candidate |-> None]

\* the pair (consensus_reached, candidate) _consensus_from_votes returns
ConsensusFromVotes(votes, threshold) ==
    LET total == Len(votes)
        top == TopScan(InsertionOrder(FirstPlaces(votes), <<>>), votes, None, 0)
    IN  IF total = 0 THEN [reached |-> FALSE, candidate |-> None]
        ELSE IF Truthy(top[1]) /\ RatioAtLeast(top[2], total, threshold)
             THEN [reached |-> TRUE, candidate |-> top[1]]
             ELSE [reached |-> FALSE, candidate |-> top[1]]

\* ------------------------------------------------------------------------
\* _aggregate_ranks (engine.py lines 192-197) and the elimination step
\* ------------------------------------------------------------------------
\* the (name, 1-based position) pairs of all rankings, in the order visited
RECURSIVE RankEntries(_)
RankEntries(votes) ==
    IF votes = <<>> THEN <<>>
    ELSE [k \in 1..Len(Head(votes).ranking) |-> <<Head(votes).ranking[k], k>>]
         \o RankEntries(Tail(votes))

RECURSIVE SumPositions(_, _)
SumPositions(entries, name) ==
    IF entries = <<>> THEN 0
    ELSE (IF Head(entries)[1] = name THEN Head(entries)[2] ELSE 0)
         + SumPositions(Tail(entries), name)

\* scores[name] with `+ idx` for `+ (idx + 1)`: positions counted from 0
AggregateScoreFromZero(votes, name) ==
    LET e == RankEntries(votes)
    IN  SumPositions([k \in 1..Len(e) |-> <<e[k][1], e[k][2] - 1>>], name)

\* scores[name] of _aggregate_ranks
AggregateScore(votes, name) == SumPositions(RankEntries(votes), name)

\* keys of the scores dict, in insertion order
ScoreKeys(votes) ==
    LET e == RankEntries(votes)
    IN  InsertionOrder([k \in 1..Len(e) |-> e[k][1]], <<>>)

\* a max that returns the last key with the highest score
RECURSIVE MaxScanLastWins(_, _, _)
MaxScanLastWins(keys, votes, best) ==
    IF keys = <<>> THEN best
    ELSE IF AggregateScore(votes, Head(keys)) >= AggregateScore(votes, best)
         THEN MaxScanLastWins(Tail(keys), votes, Head(keys))
         ELSE MaxScanLastWins(Tail(keys), votes, best)

\* max(ranks.items(), key=lambda kv: kv[1])[0]: the first key with the
\* highest score
RECURSIVE MaxScan(_, _, _)
MaxScan(keys, votes, best) ==
    IF keys = <<>> THEN best
    ELSE IF AggregateScore(votes, Head(keys)) > AggregateScore(votes, best)
         THEN MaxScan(Tail(keys), votes, Head(keys))
         ELSE MaxScan(Tail(keys), votes, best)

Worst(votes) == MaxScan(Tail(ScoreKeys(votes)), votes, Head(ScoreKeys(votes)))

\* personalities = [p for p in personalities if p.name != worst]
RemoveWorst(roster, votes) == SelectSeq(roster, LAMBDA p : p # Worst(votes))

\* ------------------------------------------------------------------------
\* run_debate (engine.py lines 200-356)
\* ------------------------------------------------------------------------
VARIABLES
    config,               \* DebateConfig: min_iterations, max_iterations, consensus_threshold
    elimination,          \* the elimination parameter
    state_personalities,  \* DebateState.personalities
    personalities,        \* the local roster, rebound by the elimination step
    iterations,           \* DebateState.iterations
    judge_decision,       \* DebateState.judge_decision
    i,                    \* the loop variable of `for i in range(0, max_iterations)`
    pc,                   \* position in run_debate
    prior_args,           \* prior_args of the round
    arguments,            \* arguments of the round
    votes,                \* votes of the round
    saved,                \* the states handed to save_callback, in order
    judge_calls,          \* calls of _prompt_for_judge issued
    judge_prompt,         \* the transcript lines of the judge's prompt
    focus_scores,         \* focus_scores of the round, until the warnings are shown
    prior_arguments,      \* prior_arguments of the last call of _prompt_for_argument
    raised_at,            \* position at which an exception left run_debate
    raw, authors, ranking,          \* _prompt_for_vote alone: reply, authors, result
    cvotes, cthreshold, cresult,    \* _consensus_from_votes alone: votes, threshold, result
    croster, cremaining,            \* one round's evaluation alone: roster before / after
    files, now, save,               \* autosave_json alone: out_dir, the clock, the call
    active_connections,   \* ConnectionManager.active_connections
    handler,              \* position of websocket_debate, per WebSocket
    link,                 \* the client's side of each WebSocket
    pong,                 \* whether "pong" was sent on a WebSocket
    broadcast_to,         \* the connections the last broadcast sent to
    council_elimination,  \* CouncilConfig.elimination
    summary,              \* the memory summary handed to every role
    step,                 \* index of the contribution being produced
    prev_messages,        \* prev_messages: the roles that have spoken
    emb,                  \* emb of the contribution being recorded
    episodes,             \* the episodes stored by memory.record_episode
    caller,               \* the function that calls run_debate
    request,              \* the options or the request body it was given
    response              \* how the command or the request ended

debateVars == <<config, elimination, state_personalities, personalities, iterations,
                judge_decision, i, pc, prior_args, arguments, votes, saved,
                judge_calls, judge_prompt, focus_scores, prior_arguments, raised_at>>
\* debateVars without pc
debateData == <<config, elimination, state_personalities, personalities, iterations,
                judge_decision, i, prior_args, arguments, votes, saved, judge_calls,
                judge_prompt, focus_scores, prior_arguments, raised_at>>
voteVars == <<raw, authors, ranking>>
consensusVars == <<cvotes, cthreshold, cresult>>
roundVars == <<croster, cremaining>>
\* the variables run_debate's actions leave alone
saveVars == <<files, now, save>>
wsVars == <<active_connections, handler, link, pong, broadcast_to>>
\* the variables of the web server and of the callers of run_debate
councilVars == <<council_elimination, summary, step, prev_messages, emb, episodes>>
callerVars == <<caller, request, response>>
extraVars == <<wsVars, councilVars, callerVars>>
pureVars == <<voteVars, consensusVars, roundVars, saveVars, extraVars>>
vars == <<debateVars, pureVars>>

\* text an agent can return as its argument
Contents == {"text"}

\* text the judge can return (possibly empty after .strip())
Judgments == {"", "verdict"}

\* replies of the voters during a debate: an empty reply, and a noisy one
\* with a repeated name, a foreign name and a newline
VoteReplies == {<<>>, <<"Z", ",", "Q", ",", " ", "Z", "\n", "Y">>}

Configs ==
    [min_iterations : 1..MaxRounds, max_iterations : 0..MaxRounds,
     consensus_threshold : PresetThresholds]

\* the variables of the pure-function specifications, when unused
IdleVote == raw = <<>> /\ authors = <<>> /\ ranking = <<>>
IdleConsensus == cvotes = <<>> /\ cthreshold = Majority /\ cresult = None
IdleRound == croster = <<>> /\ cremaining = <<>>
IdleSave == files = <<>> /\ now = 0 /\ save = [snapshot |-> 0, ts |-> 0]
IdleWs ==
    /\ active_connections = <<>>
    /\ handler = <<>>
    /\ link = <<>>
    /\ pong = <<>>
    /\ broadcast_to = <<>>
IdleCouncil ==
    /\ council_elimination = FALSE
    /\ summary = ""
    /\ step = 0
    /\ prev_messages = <<>>
    /\ emb = None
    /\ episodes = <<>>
IdleCallers ==
    /\ caller = None
    /\ request = [question |-> "", config |-> None, elimination |-> FALSE, rag |-> FALSE]
    /\ response = None
IdleExtra == IdleWs /\ IdleCouncil /\ IdleCallers
IdleRun ==
    /\ config = [min_iterations |-> 0, max_iterations |-> 0, consensus_threshold |-> Majority]
    /\ state_personalities = <<>>
    /\ personalities = <<>>
    /\ iterations = <<>>
    /\ judge_decision = None
    /\ i = 0
    /\ prior_args = <<>>
    /\ arguments = <<>>
    /\ votes = <<>>
    /\ saved = <<>>
    /\ judge_calls = 0
    /\ judge_prompt = <<>>
    /\ focus_scores = <<>>
    /\ prior_arguments = <<>>
    /\ raised_at = None
IdleDebate == elimination = FALSE /\ IdleRun

\* state = DebateState(config=config, personalities=personalities)
Init ==
    /\ config \in Configs
    /\ elimination \in BOOLEAN
    /\ personalities \in DebateRosters
    /\ state_personalities = personalities
    /\ iterations = <<>>
    /\ judge_decision = None
    /\ i = 0
    /\ pc = "loop"
    /\ prior_args = <<>>
    /\ arguments = <<>>
    /\ votes = <<>>
    /\ saved = <<>>
    /\ judge_calls = 0
    /\ judge_prompt = <<>>
    /\ focus_scores = <<>>
    /\ prior_arguments = <<>>
    /\ raised_at = None
    /\ IdleVote
    /\ IdleConsensus
    /\ IdleRound
    /\ IdleSave
    /\ IdleExtra

\* range(0, max_iterations) with its upper end included
MoreRoundsInclusive(round) == round <= config.max_iterations

\* `for i in range(0, config.max_iterations)`: is there a round `round`?
MoreRounds(round) == round < config.max_iterations

\* prior_args = state.iterations[0].arguments: the opening arguments
PriorArgsOfOpening(its) == IF its # <<>> THEN its[1].arguments ELSE <<>>

\* prior_args = []; if state.iterations: prior_args = state.iterations[-1].arguments
PriorArgs(its) == IF its # <<>> THEN its[Len(its)].arguments ELSE <<>>

\* for i in range(0, config.max_iterations): ... prior_args, arguments = []
LoopHead ==
    /\ pc = "loop"
    /\ IF MoreRounds(i)
       THEN /\ prior_args' = PriorArgs(iterations)
            /\ arguments' = <<>>
            /\ pc' = "arguments"
       ELSE /\ pc' = "judge"
            /\ UNCHANGED <<prior_args, arguments>>
    /\ UNCHANGED <<config, elimination, state_personalities, personalities, iterations,
                   judge_decision, i, votes, saved, judge_calls, judge_prompt,
                   focus_scores, prior_arguments, raised_at>>
    /\ UNCHANGED pureVars

\* prior_arguments=prior_args if i > 0 else []
PromptPrior(prior, round) == IF round > 0 THEN prior ELSE <<>>

\* one pass of `for idx, persona in enumerate(personalities, 1)`:
\* content = _prompt_for_argument(..., prior_arguments=...);
\* arguments.append(Argument(...))
AskArgument ==
    /\ pc = "arguments"
    /\ Len(arguments) < Len(personalities)
    /\ prior_arguments' = PromptPrior(prior_args, i)
    /\ \E content \in Contents :
         arguments' = Append(arguments,
                             [author |-> personalities[Len(arguments) + 1],
                              content |-> content, iteration |-> i])
    /\ UNCHANGED <<config, elimination, state_personalities, personalities, iterations,
                   judge_decision, i, pc, prior_args, votes, saved, judge_calls,
                   judge_prompt, focus_scores, raised_at>>
    /\ UNCHANGED pureVars

\* the argument loop left one roster member early
ArgumentLoopLeavesEarly(args, roster) == Len(args) + 1 >= Len(roster)

\* `for idx, persona in enumerate(personalities, 1)` has run for every member
ArgumentLoopDone(args, roster) == Len(args) = Len(roster)

\* the argument loop is exhausted: focus scoring follows
ArgumentsDone ==
    /\ pc = "arguments"
    /\ ArgumentLoopDone(arguments, personalities)
    /\ pc' = "focus"
    /\ UNCHANGED <<config, elimination, state_personalities, personalities, iterations,
                   judge_decision, i, prior_args, arguments, votes, saved, judge_calls,
                   judge_prompt, focus_scores, prior_arguments,
                   raised_at>>
    /\ UNCHANGED pureVars

\* what a call of the scorer's model can give: a reply with a high SCORE
\* line, a reply with a low one, or an exception
ScorerOutcomes == {"high", "low", "failed"}

\* the SCORE of a "high" and of a "low" reply, in hundredths
HighScore == 90
LowScore == 30

\* threshold=0.65, in hundredths
FocusThreshold == 65

\* score = 0.5, the default and the value of the except clause, in hundredths
DefaultScore == 50

\* the FocusScore score_argument_focus returns
FocusScore(outcome) ==
    IF outcome = "failed"
    THEN [score |-> DefaultScore, reasoning |-> "Error evaluating focus",
          is_focused |-> FALSE]
    ELSE LET score == IF outcome = "high" THEN HighScore ELSE LowScore
         IN  [score |-> score, reasoning |-> "reply", is_focused |-> score >= FocusThreshold]

\* batch_score_arguments: results[author] = score, a later argument of the
\* same author replacing an earlier one
BatchScore(args, outcomes) ==
    [a \in {args[k].author : k \in 1..Len(args)} |->
        LET last == CHOOSE k \in 1..Len(args) :
                        /\ args[k].author = a
                        /\ \A n \in (k + 1)..Len(args) : args[n].author # a
        IN  FocusScore(outcomes[last])]

\* get_focus_warnings: the authors a warning is printed for
FocusWarnings(scores) == {a \in DOMAIN scores : ~scores[a].is_focused}

\* a scorer whose exception is not caught
AfterScoringPropagates(outcomes) ==
    IF \E k \in DOMAIN outcomes : outcomes[k] = "failed" THEN "raised" ELSE "warn"

\* where control is after batch_score_arguments: every exception of a call
\* is caught inside score_argument_focus
AfterScoring(outcomes) == "warn"

\* focus_scores = batch_score_arguments(...)
FocusScoring ==
    /\ pc = "focus"
    /\ \E outcomes \in [1..Len(arguments) -> ScorerOutcomes] :
          /\ focus_scores' = BatchScore(arguments, outcomes)
          /\ pc' = AfterScoring(outcomes)
    /\ UNCHANGED <<config, elimination, state_personalities, personalities, iterations,
                   judge_decision, i, prior_args, arguments, votes, saved, judge_calls,
                   judge_prompt, prior_arguments, raised_at>>
    /\ UNCHANGED pureVars

\* warnings = get_focus_warnings(focus_scores); they are printed, and
\* focus_scores is not read again; votes = []
ShowFocusWarnings ==
    /\ pc = "warn"
    /\ focus_scores' = <<>>
    /\ votes' = <<>>
    /\ pc' = "votes"
    /\ UNCHANGED <<config, elimination, state_personalities, personalities, iterations,
                   judge_decision, i, prior_args, arguments, saved, judge_calls,
                   judge_prompt, prior_arguments, raised_at>>
    /\ UNCHANGED pureVars

\* one pass of `for persona in personalities`:
\* ranking = _prompt_for_vote(...); votes.append(Vote(...))
AskVote ==
    /\ pc = "votes"
    /\ Len(votes) < Len(personalities)
    /\ \E reply \in VoteReplies :
         votes' = Append(votes,
                         [voter |-> personalities[Len(votes) + 1],
                          ranking |-> SanitizeVote(reply,
                                          [k \in 1..Len(arguments) |-> arguments[k].author]),
                          iteration |-> i])
    /\ UNCHANGED <<config, elimination, state_personalities, personalities, iterations,
                   judge_decision, i, pc, prior_args, arguments, saved, judge_calls,
                   judge_prompt, focus_scores, prior_arguments,
                   raised_at>>
    /\ UNCHANGED pureVars

\* state.iterations = [it_result] instead of an append
ReplaceIterations(its, result) == <<result>>

\* state.iterations.append(it_result)
AppendIteration(its, result) == Append(its, result)

\* the vote loop left before the last roster member voted
VoteLoopLeavesEarly(vs, roster) == Len(vs) + 1 >= Len(roster)

\* `for persona in personalities` of the vote loop has run for every member
VoteLoopDone(vs, roster) == Len(vs) = Len(roster)

\* consensus, candidate = _consensus_from_votes(...);
\* state.iterations.append(IterationResult(...))
AppendResult ==
    /\ pc = "votes"
    /\ VoteLoopDone(votes, personalities)
    /\ LET c == ConsensusFromVotes(votes, config.consensus_threshold)
       IN  iterations' = AppendIteration(iterations,
                                [iteration |-> i, arguments |-> arguments, votes |-> votes,
                                 consensus_reached |-> c.reached,
                                 consensus_candidate |-> c.candidate])
    /\ pc' = "save"
    /\ UNCHANGED <<config, elimination, state_personalities, personalities,
                   judge_decision, i, prior_args, arguments, votes, saved, judge_calls,
                   judge_prompt, focus_scores, prior_arguments,
                   raised_at>>
    /\ UNCHANGED pureVars

\* what a save_callback receives: the DebateState as it is at the call
Snapshot(its, decision) == [iterations |-> its, judge_decision |-> decision]

\* a save_callback that is never invoked
EmitNothing(log, snapshot) == log

\* save_callback(state): the callback receives the state
Emit(log, snapshot) == Append(log, snapshot)

\* what one call of the Markdown writer appends to the .md file
\* (interactive.py lines 55-72): the block of state.iterations[-1] if there
\* is a round, then the judge's decision if it is set and not empty
WriterBlocks(snapshot) ==
    (IF snapshot.iterations # <<>>
     THEN <<<<"iteration", snapshot.iterations[Len(snapshot.iterations)].iteration>>>>
     ELSE <<>>)
    \o (IF snapshot.judge_decision # None /\ snapshot.judge_decision # ""
        THEN <<<<"decision", -1>>>> ELSE <<>>)

\* the blocks of the .md file after the writer was called with each of the
\* states in log, in order
RECURSIVE MarkdownLog(_)
MarkdownLog(log) ==
    IF log = <<>> THEN <<>> ELSE WriterBlocks(Head(log)) \o MarkdownLog(Tail(log))

\* if save_callback: save_callback(state)     (every caller passes one)
SaveCheckpoint ==
    /\ pc = "save"
    /\ saved' = Emit(saved, Snapshot(iterations, judge_decision))
    /\ pc' = "eliminate"
    /\ UNCHANGED <<config, elimination, state_personalities, personalities, iterations,
                   judge_decision, i, prior_args, arguments, votes, judge_calls,
                   judge_prompt, focus_scores, prior_arguments, raised_at>>
    /\ UNCHANGED pureVars

\* elimination without the len(personalities) > 2 guard
CanEliminateAlways(roster) == elimination /\ Len(roster) > 0

\* if elimination and len(personalities) > 2
CanEliminate(roster) == elimination /\ Len(roster) > 2

\* the break test without min_iterations
ShouldBreakOnConsensus(consensus, round) == consensus

\* if consensus and i + 1 >= config.min_iterations: break
ShouldBreak(consensus, round) == consensus /\ round + 1 >= config.min_iterations

\* the worst agent filtered out of state.personalities, the initial roster
SurvivorsOfInitial(roster, vs) ==
    IF CanEliminate(roster) THEN RemoveWorst(state_personalities, vs) ELSE roster

\* if elimination and len(personalities) > 2: ...
\*     personalities = [p for p in personalities if p.name != worst]
Survivors(roster, vs) ==
    IF CanEliminate(roster) THEN RemoveWorst(roster, vs) ELSE roster

\* the elimination step, then the break test and the loop increment
EliminateAndTest ==
    /\ pc = "eliminate"
    /\ personalities' = Survivors(personalities, votes)
    /\ IF ShouldBreak(iterations[Len(iterations)].consensus_reached, i)
       THEN pc' = "judge" /\ i' = i
       ELSE pc' = "loop" /\ i' = i + 1
    /\ UNCHANGED <<config, elimination, state_personalities, iterations,
                   judge_decision, prior_args, arguments, votes, saved, judge_calls,
                   judge_prompt, focus_scores, prior_arguments,
                   raised_at>>
    /\ UNCHANGED pureVars

\* v.ranking[:3]
JudgeRankingShown == 3

\* one line of the transcript `flat`: its kind, the agent it names, its text
TranscriptLine(kind, name, body) == <<kind, name, body>>

\* the lines _prompt_for_judge appends for one iteration
IterationLines(it) ==
    <<TranscriptLine("iteration", None, <<it.iteration>>)>>
    \o [k \in 1..Len(it.arguments) |->
           TranscriptLine("argument", it.arguments[k].author, <<it.arguments[k].content>>)]
    \o <<TranscriptLine("voting", None, <<>>)>>
    \o [k \in 1..Len(it.votes) |->
           TranscriptLine("vote", it.votes[k].voter,
               SubSeq(it.votes[k].ranking, 1,
                      IF Len(it.votes[k].ranking) < JudgeRankingShown
                      THEN Len(it.votes[k].ranking) ELSE JudgeRankingShown))]
    \o (IF it.consensus_reached
        THEN <<TranscriptLine("consensus", it.consensus_candidate, <<>>)>> ELSE <<>>)

\* flat, as _prompt_for_judge joins it into the user message
RECURSIVE JudgePrompt(_)
JudgePrompt(its) ==
    IF its = <<>> THEN <<>> ELSE IterationLines(Head(its)) \o JudgePrompt(Tail(its))

\* decision = _prompt_for_judge(...): the call is issued
CallJudge ==
    /\ pc = "judge"
    /\ judge_calls' = judge_calls + 1
    /\ judge_prompt' = JudgePrompt(iterations)
    /\ pc' = "judging"
    /\ UNCHANGED <<config, elimination, state_personalities, personalities, iterations,
                   judge_decision, i, prior_args, arguments, votes, saved, raised_at,
                   focus_scores,
                   prior_arguments>>
    /\ UNCHANGED pureVars

\* the judge's text arrives: state.judge_decision = decision
SetJudgment ==
    /\ pc = "judging"
    /\ \E decision \in Judgments : judge_decision' = decision
    /\ pc' = "final_save"
    /\ UNCHANGED <<config, elimination, state_personalities, personalities, iterations,
                   i, prior_args, arguments, votes, saved, judge_calls,
                   judge_prompt, focus_scores, prior_arguments, raised_at>>
    /\ UNCHANGED pureVars

\* the judge step placed inside the round loop
AfterFinalSaveLoops == "loop"

\* after the final save the report is rendered (engine.py lines 313-355)
AfterFinalSave == "report"

\* if save_callback: save_callback(state)   (after the judgment)
FinalSave ==
    /\ pc = "final_save"
    /\ saved' = Emit(saved, Snapshot(iterations, judge_decision))
    /\ pc' = AfterFinalSave
    /\ UNCHANGED <<config, elimination, state_personalities, personalities, iterations,
                   judge_decision, i, prior_args, arguments, votes, judge_calls,
                   judge_prompt, focus_scores, prior_arguments, raised_at>>
    /\ UNCHANGED pureVars

\* the final table and panels read state.iterations[-1] (IndexError on an
\* empty history); then return state
RenderReport ==
    /\ pc = "report"
    /\ IF iterations = <<>>
       THEN pc' = "raised" /\ raised_at' = "report"
       ELSE pc' = "returned" /\ raised_at' = raised_at
    /\ UNCHANGED <<config, elimination, state_personalities, personalities, iterations,
                   judge_decision, i, prior_args, arguments, votes, saved, judge_calls,
                   judge_prompt, focus_scores, prior_arguments>>
    /\ UNCHANGED pureVars

\* positions at which run_debate waits for the generative service
ServiceCallPoints == {"arguments", "votes", "judging"}

\* a failed call is issued again
RetryAfterFailure(position) == position

\* where control is after an exception: out of run_debate
AfterFailure(position) == "raised"

\* a service call raises, or an interrupt arrives: the exception leaves
\* run_debate (there is no try/except around any call) and the locals of
\* the round in progress are gone
Abort ==
    /\ pc \in {"loop", "arguments", "focus", "warn", "votes", "save", "eliminate",
               "judge", "judging", "final_save", "report"}
    /\ pc' = AfterFailure(pc)
    /\ raised_at' = pc
    /\ prior_args' = <<>>
    /\ arguments' = <<>>
    /\ votes' = <<>>
    /\ focus_scores' = <<>>
    /\ prior_arguments' = <<>>
    /\ UNCHANGED <<config, elimination, state_personalities, personalities, iterations,
                   judge_decision, i, saved, judge_calls, judge_prompt>>
    /\ UNCHANGED pureVars

Next ==
    \/ LoopHead
    \/ AskArgument
    \/ ArgumentsDone
    \/ FocusScoring
    \/ ShowFocusWarnings
    \/ AskVote
    \/ AppendResult
    \/ SaveCheckpoint
    \/ EliminateAndTest
    \/ CallJudge
    \/ SetJudgment
    \/ FinalSave
    \/ RenderReport
    \/ Abort

Spec == Init /\ [][Next]_vars

\* run_debate when every call returns and no interrupt arrives: the
\* function is sequential code, so its next statement is always executed
NextReturns ==
    \/ LoopHead
    \/ AskArgument
    \/ ArgumentsDone
    \/ FocusScoring
    \/ ShowFocusWarnings
    \/ AskVote
    \/ AppendResult
    \/ SaveCheckpoint
    \/ EliminateAndTest
    \/ CallJudge
    \/ SetJudgment
    \/ FinalSave
    \/ RenderReport

SpecReturns == Init /\ [][NextReturns]_vars /\ WF_vars(NextReturns)

\* a debate of one round more than MaxRounds, of four distinct agents, with
\* elimination
LongRounds == MaxRounds + 1

LongConfigs ==
    [min_iterations : {1, LongRounds}, max_iterations : {LongRounds},
     consensus_threshold : {Majority}]

\* state = DebateState(config=config, personalities=personalities)
InitLong ==
    /\ config \in LongConfigs
    /\ elimination = TRUE
    /\ personalities = NameOrder
    /\ state_personalities = personalities
    /\ iterations = <<>>
    /\ judge_decision = None
    /\ i = 0
    /\ pc = "loop"
    /\ prior_args = <<>>
    /\ arguments = <<>>
    /\ votes = <<>>
    /\ saved = <<>>
    /\ judge_calls = 0
    /\ judge_prompt = <<>>
    /\ focus_scores = <<>>
    /\ prior_arguments = <<>>
    /\ raised_at = None
    /\ IdleVote
    /\ IdleConsensus
    /\ IdleRound
    /\ IdleSave
    /\ IdleExtra

SpecLong == InitLong /\ [][Next]_vars

\* ------------------------------------------------------------------------
\* _prompt_for_vote's parsing alone, on every short reply
\* ------------------------------------------------------------------------
\* the reply of scenario D: "X, X, Q, Y"
ScenarioD == <<"X", ",", " ", "X", ",", " ", "Q", ",", " ", "Y">>

RawTexts == SeqsUpTo(RawChars, MaxRawLen) \cup {ScenarioD}

InitVote ==
    /\ raw \in RawTexts
    /\ authors \in Rosters
    /\ ranking = <<>>
    /\ pc = "parse"
    /\ IdleDebate
    /\ IdleConsensus
    /\ IdleRound
    /\ IdleSave
    /\ IdleExtra

\* lines 107-121 of _prompt_for_vote on the reply `raw`
ParseVote ==
    /\ pc = "parse"
    /\ ranking' = SanitizeVote(raw, authors)
    /\ pc' = "parsed"
    /\ UNCHANGED <<raw, authors>>
    /\ UNCHANGED <<config, elimination, state_personalities, personalities, iterations,
                   judge_decision, i, prior_args, arguments, votes, saved, judge_calls,
                   judge_prompt, focus_scores, prior_arguments,
                   raised_at>>
    /\ UNCHANGED <<consensusVars, roundVars, saveVars, extraVars>>

NextVote == ParseVote

SpecVote == InitVote /\ [][NextVote]_vars

\* ------------------------------------------------------------------------
\* _consensus_from_votes alone, on the votes of one round
\* ------------------------------------------------------------------------
\* the rankings _prompt_for_vote can return for a roster
Rankings(roster) == {SanitizeVote(t, roster) : t \in RawTexts}

\* one vote per roster member, as the vote loop of run_debate builds them
RoundVotes(roster) ==
    {[k \in 1..Len(roster) |-> [voter |-> roster[k], ranking |-> f[k], iteration |-> 0]] :
        f \in [1..Len(roster) -> Rankings(roster)]}

InitConsensus ==
    /\ \E roster \in Rosters : cvotes \in RoundVotes(roster)
    /\ cthreshold \in Thresholds
    /\ cresult = None
    /\ pc = "tally"
    /\ IdleDebate
    /\ IdleVote
    /\ IdleRound
    /\ IdleSave
    /\ IdleExtra

Tally ==
    /\ pc = "tally"
    /\ cresult' = ConsensusFromVotes(cvotes, cthreshold)
    /\ pc' = "tallied"
    /\ UNCHANGED <<cvotes, cthreshold>>
    /\ UNCHANGED <<config, elimination, state_personalities, personalities, iterations,
                   judge_decision, i, prior_args, arguments, votes, saved, judge_calls,
                   judge_prompt, focus_scores, prior_arguments,
                   raised_at>>
    /\ UNCHANGED <<voteVars, roundVars, saveVars, extraVars>>

NextConsensus == Tally

SpecConsensus == InitConsensus /\ [][NextConsensus]_vars

\* ------------------------------------------------------------------------
\* The evaluation of one round's votes alone (engine.py lines 274-294):
\* the consensus test, then the elimination step with elimination enabled
\* ------------------------------------------------------------------------

InitRound ==
    /\ croster \in DebateRosters
    /\ cvotes \in RoundVotes(croster)
    /\ cthreshold \in PresetThresholds
    /\ cresult = None
    /\ cremaining = croster
    /\ elimination = TRUE
    /\ pc = "tally"
    /\ IdleRun
    /\ IdleVote
    /\ IdleSave
    /\ IdleExtra

\* if elimination and len(personalities) > 2: ranks = _aggregate_ranks(votes);
\* worst = max(...)[0]; personalities = [p for p in personalities if p.name != worst]
EliminateWorst ==
    /\ pc = "tallied"
    /\ cremaining' = (IF CanEliminate(croster)
                      THEN RemoveWorst(croster, cvotes) ELSE croster)
    /\ pc' = "eliminated"
    /\ UNCHANGED <<croster, consensusVars, voteVars, saveVars, extraVars>>
    /\ UNCHANGED <<config, elimination, state_personalities, personalities, iterations,
                   judge_decision, i, prior_args, arguments, votes, saved, judge_calls,
                   judge_prompt, focus_scores, prior_arguments,
                   raised_at>>

NextRound == Tally \/ EliminateWorst

SpecRound == InitRound /\ [][NextRound]_vars

\* ------------------------------------------------------------------------
\* autosave_json (storage.py lines 13-22) alone: the calls of one or more
\* runs on the directory out_dir, a call possibly cut short by a crash.
\* The file names differ by the timestamp only (one title).
\* ------------------------------------------------------------------------
\* out_dir / (filename + ".tmp") for the timestamp ts
TmpPath(ts) == <<ts, "json.tmp">>

\* out_dir / filename for the timestamp ts
FinalPath(ts) == <<ts, "json">>

Paths == {TmpPath(ts) : ts \in 0..MaxClock} \cup {FinalPath(ts) : ts \in 0..MaxClock}

\* json.dumps(data) of snapshot k, and what a file holds of it
Written(k, whole) == [exists |-> TRUE, snapshot |-> k, complete |-> whole]

\* a path at which there is no file
Absent == [exists |-> FALSE, snapshot |-> 0, complete |-> FALSE]

\* write_text straight to the final path
WriteInPlace(ts) == FinalPath(ts)

\* the path tmp.write_text writes to
WriteTarget(ts) == TmpPath(ts)

InitSave ==
    /\ files = [p \in Paths |-> Absent]
    /\ now = 0
    /\ save = [snapshot |-> 0, ts |-> 0]
    /\ pc = "idle"
    /\ IdleDebate
    /\ IdleVote
    /\ IdleConsensus
    /\ IdleRound
    /\ IdleExtra

\* the call starts: ts = datetime.utcnow() to the second, filename, tmp,
\* final, data = state.model_dump()
BeginSave ==
    /\ pc = "idle"
    /\ save.snapshot < MaxSaves
    /\ save' = [snapshot |-> save.snapshot + 1, ts |-> now]
    /\ pc' = "open"
    /\ UNCHANGED <<files, now>>
    /\ UNCHANGED <<debateData, voteVars, consensusVars, roundVars, extraVars>>

\* tmp.write_text(...) opens tmp for writing: created or truncated
OpenTmp ==
    /\ pc = "open"
    /\ files' = [files EXCEPT ![WriteTarget(save.ts)] = Written(save.snapshot, FALSE)]
    /\ pc' = "write"
    /\ UNCHANGED <<now, save>>
    /\ UNCHANGED <<debateData, voteVars, consensusVars, roundVars, extraVars>>

\* tmp.write_text(...) has written all of the text and closed tmp
WriteTmp ==
    /\ pc = "write"
    /\ files' = [files EXCEPT ![WriteTarget(save.ts)] = Written(save.snapshot, TRUE)]
    /\ pc' = "replace"
    /\ UNCHANGED <<now, save>>
    /\ UNCHANGED <<debateData, voteVars, consensusVars, roundVars, extraVars>>

\* tmp.replace(final): os.replace renames in one step
ReplaceFinal ==
    /\ pc = "replace"
    /\ files' = [p \in Paths |->
                    IF p = FinalPath(save.ts) THEN files[WriteTarget(save.ts)]
                    ELSE IF p = WriteTarget(save.ts) THEN Absent
                    ELSE files[p]]
    /\ pc' = "idle"
    /\ UNCHANGED <<now, save>>
    /\ UNCHANGED <<debateData, voteVars, consensusVars, roundVars, extraVars>>

\* the clock reaches the next second
Tick ==
    /\ now < MaxClock
    /\ now' = now + 1
    /\ UNCHANGED <<files, save, pc>>
    /\ UNCHANGED <<debateData, voteVars, consensusVars, roundVars, extraVars>>

\* the process dies during a call; the files stay as they are and a later
\* run calls autosave_json again
Crash ==
    /\ pc \in {"open", "write", "replace"}
    /\ pc' = "idle"
    /\ UNCHANGED <<files, now, save>>
    /\ UNCHANGED <<debateData, voteVars, consensusVars, roundVars, extraVars>>

NextSave == BeginSave \/ OpenTmp \/ WriteTmp \/ ReplaceFinal \/ Tick \/ Crash

SpecSave == InitSave /\ [][NextSave]_vars

\* ------------------------------------------------------------------------
\* ConnectionManager and websocket_debate (server.py lines 26-42, 224-317)
\* ------------------------------------------------------------------------
\* the WebSocket objects of the clients that connect to /ws/debate
Sockets == {"ws1", "ws2", "ws3"}

\* what a client sends first: a start command with a question, one without,
\* JSON of another type, text that is not JSON
FirstMessages == {"start_debate", "no_question", "other", "not_json"}

\* the variables the web server's actions leave alone
wsOthers ==
    <<debateVars, voteVars, consensusVars, roundVars, saveVars, councilVars, callerVars>>

\* manager = ConnectionManager(); no client has connected
InitWs ==
    /\ active_connections = <<>>
    /\ handler = [s \in Sockets |-> "none"]
    /\ link = [s \in Sockets |-> "new"]
    /\ pong = [s \in Sockets |-> FALSE]
    /\ broadcast_to = <<>>
    /\ pc = "serving"
    /\ IdleDebate
    /\ IdleVote
    /\ IdleConsensus
    /\ IdleRound
    /\ IdleSave
    /\ IdleCouncil
    /\ IdleCallers

\* self.active_connections.remove(websocket)
ManagerDisconnect(connections, s) == SelectSeq(connections, LAMBDA c : c # s)

\* the keep-alive loop's `except WebSocketDisconnect: break`: the handler
\* returns, the outer except clauses are not entered
AfterKeepAliveDisconnect(connections, s) == connections

\* await manager.connect(websocket): accept, then append
Connect(s) ==
    /\ handler[s] = "none"
    /\ link' = [link EXCEPT ![s] = "open"]
    /\ active_connections' = Append(active_connections, s)
    /\ handler' = [handler EXCEPT ![s] = "receive_start"]
    /\ UNCHANGED <<pong, broadcast_to>>
    /\ UNCHANGED wsOthers

\* the client closes its side
ClientCloses(s) ==
    /\ link[s] = "open"
    /\ link' = [link EXCEPT ![s] = "closed"]
    /\ UNCHANGED <<active_connections, handler, pong, broadcast_to>>
    /\ UNCHANGED wsOthers

\* data = await websocket.receive_json() returns, and the start command is
\* handled: broadcasts for a start command, KeyError for a missing question
\* and a decoding error for other text (except Exception: disconnect)
ReceiveStart(s) ==
    /\ handler[s] = "receive_start"
    /\ link[s] = "open"
    /\ \E first \in FirstMessages :
         /\ broadcast_to' = (IF first \in {"start_debate", "no_question"}
                             THEN active_connections ELSE broadcast_to)
         /\ IF first \in {"no_question", "not_json"}
            THEN /\ active_connections' = ManagerDisconnect(active_connections, s)
                 /\ handler' = [handler EXCEPT ![s] = "ended"]
            ELSE /\ active_connections' = active_connections
                 /\ handler' = [handler EXCEPT ![s] = "keep_alive"]
    /\ UNCHANGED <<link, pong>>
    /\ UNCHANGED wsOthers

\* receive_json raises WebSocketDisconnect: the outer except clause
DisconnectAtStart(s) ==
    /\ handler[s] = "receive_start"
    /\ link[s] = "closed"
    /\ active_connections' = ManagerDisconnect(active_connections, s)
    /\ handler' = [handler EXCEPT ![s] = "ended"]
    /\ UNCHANGED <<link, pong, broadcast_to>>
    /\ UNCHANGED wsOthers

\* message = await websocket.receive_text(); if message == "ping": send "pong"
KeepAlivePing(s) ==
    /\ handler[s] = "keep_alive"
    /\ link[s] = "open"
    /\ ~pong[s]
    /\ pong' = [pong EXCEPT ![s] = TRUE]
    /\ UNCHANGED <<active_connections, handler, link, broadcast_to>>
    /\ UNCHANGED wsOthers

\* receive_text raises WebSocketDisconnect inside the keep-alive loop
DisconnectInKeepAlive(s) ==
    /\ handler[s] = "keep_alive"
    /\ link[s] = "closed"
    /\ active_connections' = AfterKeepAliveDisconnect(active_connections, s)
    /\ handler' = [handler EXCEPT ![s] = "ended"]
    /\ UNCHANGED <<link, pong, broadcast_to>>
    /\ UNCHANGED wsOthers

NextWs ==
    \/ \E s \in Sockets : Connect(s)
    \/ \E s \in Sockets : ClientCloses(s)
    \/ \E s \in Sockets : ReceiveStart(s)
    \/ \E s \in Sockets : DisconnectAtStart(s)
    \/ \E s \in Sockets : KeepAlivePing(s)
    \/ \E s \in Sockets : DisconnectInKeepAlive(s)

SpecWs == InitWs /\ [][NextWs]_vars

\* ------------------------------------------------------------------------
\* run_council_of_consciousness (consciousness.py lines 129-336) with
\* ChromaCouncilMemory.record_episode (chroma_memory.py lines 80-126)
\* ------------------------------------------------------------------------
\* roles[0], the roles that are neither moderator nor critic, the critic
Moderator == "moderator"
Speakers == <<"rationalist", "humanist", "spiritualist", "technocrat">>
Critic == "critic"

\* the contributions of the five phases, in the order they are produced
Contribution(phase, role) == [phase |-> phase, role |-> role]
Program ==
    <<Contribution("opening", Moderator)>>
    \o [k \in 1..Len(Speakers) |-> Contribution("argument", Speakers[k])]
    \o <<Contribution("critique", Critic)>>
    \o [k \in 1..Len(Speakers) |-> Contribution("reflection", Speakers[k])]
    \o <<Contribution("closing", Moderator)>>

\* the record of the elimination phase: agent "Evaluator", role "eliminator"
EliminationRecord == Contribution("elimination", "eliminator")

\* the contribution being produced or recorded
Current == IF step <= Len(Program) THEN Program[step] ELSE EliminationRecord

\* what _choose_elimination returns: None, an empty answer, a role
EliminationTargets == {None, "", "humanist"}

\* the variables the council's actions leave alone
councilOthers ==
    <<debateData, voteVars, consensusVars, roundVars, saveVars, wsVars, callerVars>>

\* memory = ChromaCouncilMemory(); the log file is created
InitCouncil ==
    /\ council_elimination \in BOOLEAN
    /\ summary = ""
    /\ step = 0
    /\ prev_messages = <<>>
    /\ emb = None
    /\ episodes = <<>>
    /\ pc = "retrieve"
    /\ IdleDebate
    /\ IdleVote
    /\ IdleConsensus
    /\ IdleRound
    /\ IdleSave
    /\ IdleWs
    /\ IdleCallers

\* the two try blocks of the retrieval: on any exception summary = ""
RetrieveContext ==
    /\ pc = "retrieve"
    /\ \E found \in {"", "context"} : summary' = found
    /\ step' = 1
    /\ pc' = "speak"
    /\ UNCHANGED <<council_elimination, prev_messages, emb, episodes>>
    /\ UNCHANGED councilOthers

\* content = _stream_role_output(...); prev_messages.append(...), except
\* for the closing, which is not appended
Speak ==
    /\ pc = "speak"
    /\ prev_messages' = (IF Current.phase = "closing" THEN prev_messages
                         ELSE Append(prev_messages, Current.role))
    /\ pc' = "embed"
    /\ UNCHANGED <<council_elimination, summary, step, emb, episodes>>
    /\ UNCHANGED councilOthers

\* try: emb = embed_text(client, content) / except Exception: emb = None
EmbedText ==
    /\ pc = "embed"
    /\ \E outcome \in {"vector", None} : emb' = outcome
    /\ pc' = "record"
    /\ UNCHANGED <<council_elimination, summary, step, prev_messages, episodes>>
    /\ UNCHANGED councilOthers

\* where the council is after the record of contribution `k` is stored
AfterRecord(k) ==
    IF k < Len(Program) THEN "speak"
    ELSE IF k = Len(Program) /\ council_elimination THEN "choose"
    ELSE "close"

\* if embedding is None: raise ValueError("Embedding is required ...")
EmbeddingRequired(embedding) == embedding = None

\* memory.record_episode(..., embedding=emb): ValueError without an
\* embedding (no caller catches it), else the record is added
RecordEpisode ==
    /\ pc = "record"
    /\ IF EmbeddingRequired(emb)
       THEN /\ pc' = "raised"
            /\ UNCHANGED <<step, episodes>>
       ELSE /\ episodes' = Append(episodes, Current)
            /\ step' = step + 1
            /\ pc' = AfterRecord(step)
    /\ UNCHANGED <<council_elimination, summary, prev_messages, emb>>
    /\ UNCHANGED councilOthers

\* elimination_target = _choose_elimination(...); if elimination_target:
\* memory.record_episode(..., embedding=None)
ChooseElimination ==
    /\ pc = "choose"
    /\ \E target \in EliminationTargets :
         IF target # None /\ target # ""
         THEN emb' = None /\ pc' = "record"
         ELSE emb' = emb /\ pc' = "close"
    /\ UNCHANGED <<council_elimination, summary, step, prev_messages, episodes>>
    /\ UNCHANGED councilOthers

\* memory.close(); the path of the log is printed
CloseCouncil ==
    /\ pc = "close"
    /\ pc' = "done"
    /\ UNCHANGED councilVars
    /\ UNCHANGED councilOthers

NextCouncil ==
    \/ RetrieveContext
    \/ Speak
    \/ EmbedText
    \/ RecordEpisode
    \/ ChooseElimination
    \/ CloseCouncil

\* every call to the chat model returns; the function is sequential code
SpecCouncil == InitCouncil /\ [][NextCouncil]_vars /\ WF_vars(NextCouncil)

\* ------------------------------------------------------------------------
\* The callers of run_debate: the `debate` command (cli.py lines 21-116),
\* start_debate_api (server.py lines 320-392), run_interactive
\* (interactive.py lines 77-117)
\* ------------------------------------------------------------------------
Callers == {"debate", "start_debate_api", "run_interactive"}

\* def run_debate(config, personalities, save_callback=None, elimination=False)
RunDebateParameters == {"config", "personalities", "save_callback", "elimination"}

\* the keyword arguments of each caller's call of run_debate
CallKeywords(c) ==
    IF c = "run_interactive"
    THEN {"config", "personalities", "save_callback", "elimination"}
    ELSE {"config", "personalities", "save_callback", "elimination", "rag_system"}

\* Python binds a call whose keywords all name parameters; else TypeError
CallAccepted(c) == CallKeywords(c) \subseteq RunDebateParameters

\* the command's `if not qtext: raise typer.Exit(code=2)`; the endpoint and
\* the wizard take any question
QuestionRefused(c, question) == c = "debate" /\ question = ""

\* the variables the callers' actions leave alone
callerOthers ==
    <<judge_decision, iterations, i, prior_args, arguments, votes, saved, judge_calls,
      judge_prompt, focus_scores, prior_arguments, raised_at,
      voteVars, consensusVars, roundVars, saveVars, wsVars, councilVars>>

\* a command line, a request body or the wizard's answers
InitCallers ==
    /\ caller \in Callers
    /\ request \in [question : {"", "q"}, config : Configs,
                     elimination : BOOLEAN, rag : BOOLEAN]
    /\ response = None
    /\ pc = "request"
    /\ IdleDebate
    /\ IdleVote
    /\ IdleConsensus
    /\ IdleRound
    /\ IdleSave
    /\ IdleWs
    /\ IdleCouncil

\* the question is read, DebateConfig and the roster are built, and the RAG
\* system when it is enabled
PrepareCall ==
    /\ pc = "request"
    /\ IF QuestionRefused(caller, request.question)
       THEN response' = "exit 2" /\ pc' = "ended"
       ELSE response' = response /\ pc' = "call"
    /\ UNCHANGED <<caller, request, config, elimination, state_personalities,
                   personalities>>
    /\ UNCHANGED callerOthers

\* run_debate(config=..., personalities=..., save_callback=...,
\* elimination=..., [rag_system=...]): the call is bound and
\* state = DebateState(...) is built, or TypeError is raised
CallRunDebate ==
    /\ pc = "call"
    /\ IF CallAccepted(caller)
       THEN /\ config' = request.config
            /\ elimination' = request.elimination
            /\ personalities' = NameOrder
            /\ state_personalities' = NameOrder
            /\ pc' = "loop"
       ELSE /\ pc' = "type_error"
            /\ UNCHANGED <<config, elimination, state_personalities, personalities>>
    /\ UNCHANGED <<caller, request, response>>
    /\ UNCHANGED callerOthers

\* the TypeError leaves the command, or start_debate_api's
\* `except Exception` turns it into HTTPException(status_code=500)
TypeErrorLeaves ==
    /\ pc = "type_error"
    /\ response' = (IF caller = "start_debate_api" THEN "HTTP 500" ELSE "TypeError")
    /\ pc' = "ended"
    /\ UNCHANGED <<caller, request, config, elimination, state_personalities,
                   personalities>>
    /\ UNCHANGED callerOthers

NextCallers == PrepareCall \/ CallRunDebate \/ TypeErrorLeaves

SpecCallers == InitCallers /\ [][NextCallers]_vars /\ WF_vars(NextCallers)
\* ========================================================================
\* Properties
\* ========================================================================
IsPermutationOf(r, names) ==
    /\ NoDuplicates(r)
    /\ Len(r) = Len(names)
    /\ Range(r) = Range(names)

\* C1: for every reply text and every list of authors with distinct names,
\* the ranking the vote parser returns is a permutation of the authors: no
\* duplicate, no omission, no foreign name (the parser has no raising path on
\* a text).
C1_RankingIsPermutation ==
    (pc = "parsed" /\ NoDuplicates(authors)) => IsPermutationOf(ranking, authors)

\* the reply of scenario D (a repeat, a foreign name, an omission) was parsed
C1_Witness ==
    /\ pc = "parsed"
    /\ raw = ScenarioD
    /\ authors = <<"X", "Y", "Z">>
    /\ ranking = <<"X", "Y", "Z">>

\* number of votes whose first place is `name`
FirstPlaceVotes(vs, name) ==
    Cardinality({k \in 1..Len(vs) : vs[k].ranking # <<>> /\ vs[k].ranking[1] = name})

\* the highest first-place count among the candidates
LeadingCount(vs) ==
    CHOOSE n \in 0..Len(vs) :
        /\ \A a \in AgentNames : FirstPlaceVotes(vs, a) <= n
        /\ n = 0 \/ \E a \in AgentNames : FirstPlaceVotes(vs, a) = n

\* C2: consensus_reached is True exactly when there is at least one vote and
\* leading_count / total_votes >= threshold; with no vote the result is
\* (False, None).
C2_ConsensusIffThreshold ==
    pc = "tallied" =>
        /\ cresult.reached <=>
              (Len(cvotes) > 0
               /\ LeadingCount(cvotes) * cthreshold[2] >= cthreshold[1] * Len(cvotes))
        /\ Len(cvotes) = 0 => cresult = [reached |-> FALSE, candidate |-> None]

\* two voters split one each under "majority": exactly at the threshold
C2_Witness ==
    /\ pc = "tallied"
    /\ Len(cvotes) = 2
    /\ LeadingCount(cvotes) = 1
    /\ cthreshold = Majority
    /\ cresult.reached

\* C7: for a non-empty list of votes the candidate returned holds the
\* highest first-place count, whether or not consensus is reached; it is
\* None only when there is no vote.
C7_CandidateIsFrontRunner ==
    pc = "tallied" =>
        IF cvotes = <<>> THEN cresult.candidate = None
        ELSE /\ cresult.candidate \in AgentNames
             /\ FirstPlaceVotes(cvotes, cresult.candidate) = LeadingCount(cvotes)

\* scenario B: three voters, two first places for X, unanimity not met
C7_Witness ==
    /\ pc = "tallied"
    /\ Len(cvotes) = 3
    /\ cthreshold = Unanimity
    /\ FirstPlaceVotes(cvotes, "X") = 2
    /\ cresult = [reached |-> FALSE, candidate |-> "X"]

\* C3: the history never holds more than max_iterations rounds.
C3_AtMostMaxRounds == Len(iterations) <= config.max_iterations

\* a debate that ran all its max_iterations rounds and returned
C3_Witness ==
    /\ pc = "returned"
    /\ config.max_iterations = MaxRounds
    /\ Len(iterations) = MaxRounds

\* positions after the round loop: adjudication and what follows it
AfterLoop == {"judge", "judging", "final_save", "report", "returned"}

\* positions inside the round loop
InRound == {"loop", "arguments", "focus", "warn", "votes", "save", "eliminate"}

\* C4: the debate never moves to adjudication with fewer than min_iterations
\* completed rounds.
C4_NeverStopsBeforeMinRounds ==
    pc \in AfterLoop => Len(iterations) >= config.min_iterations

\* C5: with elimination enabled a round that ends with more than two roster
\* members removes exactly one member; otherwise the roster is unchanged; the
\* roster is never reduced below 2 members.
C5_EliminationRemovesExactlyOne ==
    [][/\ (pc = "eliminate" /\ pc' # "raised") =>
             IF elimination /\ Len(personalities) > 2
             THEN Len(personalities') = Len(personalities) - 1
             ELSE personalities' = personalities
       /\ Len(personalities) >= 2 => Len(personalities') >= 2]_vars

IsPrefix(s, t) == Len(s) <= Len(t) /\ s = SubSeq(t, 1, Len(s))

\* C6: the recorded round indices are 0, 1, ..., k-1 in that order, and a
\* recorded round is never modified or removed by a later step.
C6_HistoryAppendOnly ==
    /\ [](\A k \in 1..Len(iterations) : iterations[k].iteration = k - 1)
    /\ [][IsPrefix(iterations, iterations')]_vars

\* two rounds recorded, an elimination in between, and the judgment made
C6_Witness ==
    /\ pc = "returned"
    /\ Len(iterations) = 2
    /\ Len(personalities) < Len(state_personalities)

\* C8: a failure during the argument or vote collection of round i leaves
\* run_debate (nothing runs afterwards, no retry); no result for round i is
\* in the history or among the emitted states, and the states emitted for
\* rounds 0..i-1 are as they were.
C8_FailureLosesOnlyCurrentRound ==
    /\ [](raised_at \in {"arguments", "votes"} =>
            /\ pc = "raised"
            /\ Len(iterations) = i
            /\ Len(saved) = i
            /\ \A k \in 1..Len(saved) : saved[k].iterations = SubSeq(iterations, 1, k))
    /\ [][(pc \in {"arguments", "votes"} /\ pc' = "raised") =>
             (iterations' = iterations /\ saved' = saved)]_vars
    /\ [][pc # "raised"]_vars

\* the vote collection of round 1 failed after round 0 was emitted
C8_Witness ==
    /\ pc = "raised"
    /\ raised_at = "votes"
    /\ i = 1
    /\ Len(saved) = 1
    /\ Len(saved[1].iterations) = 1

\* rounds held by the last emitted state
PersistedRounds == IF saved = <<>> THEN 0 ELSE Len(saved[Len(saved)].iterations)

\* C9: the state with round i's result is emitted before any request of
\* round i+1; the per-round emitted states hold 1, 2, ..., k rounds; at any
\* point at most the round in progress is not yet emitted.
C9_CheckpointBeforeNextRound ==
    /\ pc \in {"arguments", "focus", "warn", "votes"} => Len(saved) = i
    /\ \A k \in 1..Len(saved) :
          saved[k].judge_decision = None =>
              saved[k].iterations = SubSeq(iterations, 1, k) /\ Len(iterations) >= k
    /\ Len(iterations) - PersistedRounds <= 1

\* round 1 has issued a request and round 0 is already emitted
C9_Witness ==
    /\ pc = "arguments"
    /\ i = 1
    /\ arguments # <<>>
    /\ Len(saved) = 1
    /\ Len(saved[1].iterations) = 1

\* C10: the judge is called at most once, never while a round is running,
\* exactly once in a debate that returns; judge_decision is unset during the
\* rounds and is assigned at most once.
C10_JudgeOnceAfterLoop ==
    /\ [](judge_calls <= 1)
    /\ [](pc \in InRound => judge_calls = 0 /\ judge_decision = None)
    /\ [](pc = "returned" => judge_calls = 1 /\ judge_decision # None)
    /\ [][judge_decision' # judge_decision => judge_decision = None]_vars

\* a debate of two rounds that returned with its judgment
C10_Witness ==
    /\ pc = "returned"
    /\ judge_calls = 1
    /\ judge_decision = "verdict"
    /\ Len(iterations) = 2

\* C11: within a round the arguments are collected in roster order, no vote
\* is collected before every roster member of the round has argued, and
\* every ranking covers the authors of all arguments of the round.
C11_VotesAfterAllArguments ==
    /\ pc \in {"arguments", "focus", "warn", "votes"} =>
          /\ Len(arguments) <= Len(personalities)
          /\ \A k \in 1..Len(arguments) :
                arguments[k].author = personalities[k] /\ arguments[k].iteration = i
    /\ pc = "votes" =>
          /\ Len(arguments) = Len(personalities)
          /\ \A k \in 1..Len(votes) :
                /\ votes[k].voter = personalities[k]
                /\ Len(votes[k].ranking) = Len(arguments)
                /\ Range(votes[k].ranking) = {arguments[n].author : n \in 1..Len(arguments)}

\* the second voter of a three-member round has ranked all three arguments
C11_Witness ==
    /\ pc = "votes"
    /\ Len(personalities) = 3
    /\ Len(arguments) = 3
    /\ Len(votes) = 2

\* the agents the elimination step of the round took off the roster
Removed == Range(croster) \ Range(cremaining)

\* C12: with distinct agent names, in a round where consensus is reached
\* the agent removed by the elimination step of that round is not the
\* consensus candidate of the round.
C12_CandidateNotRemoved ==
    (pc = "eliminated" /\ NoDuplicates(croster) /\ cresult.reached) =>
        cresult.candidate \notin Removed

\* the rearrangements of n positions, for n up to the longest roster
Rearrangements ==
    [n \in 0..Len(NameOrder) |->
        {f \in [1..n -> 1..n] : \A a, b \in 1..n : f[a] = f[b] => a = b}]

\* the rounds whose votes are taken in every order: those with fewer voters
\* than there are agent names in the model
OrdersChecked(vs) == Len(vs) < Len(NameOrder)

\* the votes vs taken in the order f
Reordered(vs, f) == [k \in 1..Len(vs) |-> vs[f[k]]]

\* the candidates holding the highest first-place count
Leaders(vs) ==
    {a \in AgentNames :
        \A b \in AgentNames : FirstPlaceVotes(vs, b) <= FirstPlaceVotes(vs, a)}

\* C13 as stated: tallying the same votes in any order yields the same
\* leading candidate and the same consensus result.
C13_CandidateSameInAnyOrder ==
    pc = "tallied" =>
        \A f \in Rearrangements[Len(cvotes)] :
            ConsensusFromVotes(Reordered(cvotes, f), cthreshold) = cresult

\* C13: among the candidates tied for the highest first-place count the
\* one returned is the first-place choice of the earliest vote that names
\* one of them (the insertion order of the tally); consensus_reached is the
\* same for every order of the votes, and so is the candidate when a single
\* candidate leads (orders checked for rounds of up to three voters).
C13_TieBrokenByVoteOrder ==
    (pc = "tallied" /\ cvotes # <<>>) =>
        LET leaders == Leaders(cvotes)
        IN  /\ \E k \in 1..Len(cvotes) :
                  /\ cvotes[k].ranking[1] \in leaders
                  /\ cresult.candidate = cvotes[k].ranking[1]
                  /\ \A n \in 1..(k - 1) : cvotes[n].ranking[1] \notin leaders
            /\ OrdersChecked(cvotes) =>
                  \A f \in Rearrangements[Len(cvotes)] :
                      LET other == ConsensusFromVotes(Reordered(cvotes, f), cthreshold)
                      IN  /\ other.reached = cresult.reached
                          /\ Cardinality(leaders) = 1 => other = cresult

\* two voters split one each: X leads as tallied, Y when the votes are swapped
C13_Witness ==
    /\ pc = "tallied"
    /\ Len(cvotes) = 2
    /\ cvotes[1].ranking[1] = "X"
    /\ cvotes[2].ranking[1] = "Y"
    /\ cresult.candidate = "X"
    /\ ConsensusFromVotes(<<cvotes[2], cvotes[1]>>, cthreshold).candidate = "Y"

\* scores of _aggregate_ranks, for every agent name (0 when unranked)
ScoreTable(vs) == [a \in AgentNames |-> AggregateScore(vs, a)]

\* the agents holding the highest score of a score table
Lowest(scores) ==
    {a \in AgentNames : \A b \in AgentNames : scores[b] <= scores[a]}

\* C14 as stated: for the same roster and the same votes the same agent is
\* removed, whatever the order in which the votes are aggregated.
C14_RemovalSameInAnyOrder ==
    (pc = "eliminated" /\ NoDuplicates(croster)) =>
        \A f \in Rearrangements[Len(cvotes)] :
            (IF CanEliminate(croster)
             THEN RemoveWorst(croster, Reordered(cvotes, f)) ELSE croster) = cremaining

\* C14: among the agents tied for the highest aggregate score the one
\* removed is the one the first vote of the round ranks earliest (the
\* insertion order of the scores); the aggregate scores do not depend on
\* the order of the votes, so the removal is the same for every order of
\* the votes when a single agent holds the highest score (orders checked
\* for rounds of up to three voters).
C14_TieBrokenByFirstRanking ==
    (pc = "eliminated" /\ CanEliminate(croster)) =>
        LET scores == ScoreTable(cvotes)
            lowest == Lowest(scores)
            first == cvotes[1].ranking
        IN  /\ \E k \in 1..Len(first) :
                  /\ first[k] \in lowest
                  /\ \A n \in 1..(k - 1) : first[n] \notin lowest
                  /\ cremaining = SelectSeq(croster, LAMBDA p : p # first[k])
            /\ OrdersChecked(cvotes) =>
                  \A f \in Rearrangements[Len(cvotes)] :
                      /\ ScoreTable(Reordered(cvotes, f)) = scores
                      /\ Cardinality(lowest) = 1 =>
                            RemoveWorst(croster, Reordered(cvotes, f)) = cremaining

\* three voters rank X, Y, Z in a cycle: every score is 6, X is removed as
\* aggregated, Y when the second vote is aggregated first
C14_Witness ==
    /\ pc = "eliminated"
    /\ croster = <<"X", "Y", "Z">>
    /\ cvotes[1].ranking = <<"X", "Y", "Z">>
    /\ cvotes[2].ranking = <<"Y", "Z", "X">>
    /\ cvotes[3].ranking = <<"Z", "X", "Y">>
    /\ cremaining = <<"Y", "Z">>
    /\ RemoveWorst(croster, <<cvotes[2], cvotes[1], cvotes[3]>>) = <<"X", "Z">>

\* C15: the judge's prompt holds every argument of every recorded round
\* and, for every vote of every recorded round, the voter with that voter's
\* full ranking.
C15_PromptHoldsFullTranscript ==
    judge_calls = 1 =>
        \A r \in 1..Len(iterations) :
            /\ \A k \in 1..Len(iterations[r].arguments) :
                  TranscriptLine("argument", iterations[r].arguments[k].author,
                                 <<iterations[r].arguments[k].content>>)
                      \in Range(judge_prompt)
            /\ \A k \in 1..Len(iterations[r].votes) :
                  TranscriptLine("vote", iterations[r].votes[k].voter,
                                 iterations[r].votes[k].ranking)
                      \in Range(judge_prompt)

\* C16: under the presets consensus is declared only when the leading
\* candidate holds strictly more than 50% of the first-place votes for
\* "majority", more than 66% for "supermajority", and all of them for
\* "unanimity".
C16_PresetsAsAnnounced ==
    (pc = "tallied" /\ cresult.reached) =>
        /\ cthreshold = Majority => 2 * LeadingCount(cvotes) > Len(cvotes)
        /\ cthreshold = Supermajority => 100 * LeadingCount(cvotes) > 66 * Len(cvotes)
        /\ cthreshold = Unanimity => LeadingCount(cvotes) = Len(cvotes)

\* C17: a debate that runs a round has min_iterations <= max_iterations and
\* 0 < consensus_threshold <= 1.
C17_RoundsOnlyWithValidConfig ==
    (pc \in {"arguments", "focus", "warn", "votes", "save", "eliminate"}
     \/ iterations # <<>>) =>
        /\ config.min_iterations <= config.max_iterations
        /\ 0 < config.consensus_threshold[1]
        /\ config.consensus_threshold[1] <= config.consensus_threshold[2]

\* C18: the final path of every snapshot file is absent or holds a complete
\* snapshot, at every point of a call and after a crash; a step leaves it as
\* it was or puts the complete snapshot of the call in progress there.
C18_FinalPathNeverPartial ==
    /\ [](\A ts \in 0..MaxClock :
            files[FinalPath(ts)].exists => files[FinalPath(ts)].complete)
    /\ [][\A ts \in 0..MaxClock :
            \/ files'[FinalPath(ts)] = files[FinalPath(ts)]
            \/ files'[FinalPath(ts)] = Written(save.snapshot, TRUE)]_vars

\* a call died while writing its temporary file, in the second in which an
\* earlier call had put its complete snapshot at the final path
C18_Witness ==
    /\ pc = "idle"
    /\ files[FinalPath(0)] = Written(1, TRUE)
    /\ files[TmpPath(0)] = Written(2, FALSE)

\* C19 (for the Markdown writer): over the calls of the save callback made
\* by run_debate no round's block is written to the log a second time.
C19_RoundWrittenOnce ==
    LET log == MarkdownLog(saved)
    IN  \A a, b \in 1..Len(log) :
            (a < b /\ log[a][1] = "iteration" /\ log[b][1] = "iteration")
                => log[a][2] # log[b][2]

\* what a round works on and decides with, and what it has recorded
RoundData == <<config, elimination, state_personalities, personalities, iterations,
               judge_decision, i, prior_args, arguments, saved, judge_calls>>

\* C20: the focus scorer never blocks or influences a round: whatever the
\* calls give, a failure included (replaced by the default 0.5 with a
\* warning), scoring is followed by the warnings and the vote collection,
\* neither step changes anything the round works with, and the scores are
\* gone before the first vote is requested.
C20_ScorerNeverInfluencesRound ==
    /\ [][(pc = "focus" /\ raised_at' = None) => (pc' = "warn" /\ UNCHANGED RoundData)]_vars
    /\ [][(pc = "warn" /\ raised_at' = None) => (pc' = "votes" /\ UNCHANGED RoundData)]_vars
    /\ [](pc # "warn" => focus_scores = <<>>)
    /\ [](pc = "warn" =>
            /\ DOMAIN focus_scores = {arguments[k].author : k \in 1..Len(arguments)}
            /\ \A a \in DOMAIN focus_scores :
                  /\ focus_scores[a].score \in 0..100
                  /\ focus_scores[a].reasoning = "Error evaluating focus" =>
                        (focus_scores[a].score = DefaultScore /\ a \in FocusWarnings(focus_scores)))

\* in the second round the scorer failed for X, gave Y a low score and Z a
\* high one: warnings for X and Y, and the round goes on
C20_Witness ==
    /\ pc = "warn"
    /\ i = 1
    /\ DOMAIN focus_scores = {"X", "Y", "Z"}
    /\ focus_scores["X"].reasoning = "Error evaluating focus"
    /\ focus_scores["X"].score = DefaultScore
    /\ focus_scores["Y"].score = LowScore
    /\ focus_scores["Z"].score = HighScore
    /\ FocusWarnings(focus_scores) = {"X", "Y"}

\* the termination test of the claim, after round `round` with result `result`
StopAfter(result, round) ==
    \/ result.consensus_reached /\ round + 1 >= config.min_iterations
    \/ round + 1 = config.max_iterations

Ascending(S) ==
    [j \in 1..Cardinality(S) |-> CHOOSE x \in S : Cardinality({y \in S : y < x}) = j - 1]

\* positions of the commas and newlines of a text, and its two ends
Cuts(text) == {k \in 1..Len(text) : text[k] \in {",", "\n"}} \cup {0, Len(text) + 1}

\* the piece of the text that starts after the cut c
PieceAfter(text, c) ==
    LET next == CHOOSE d \in Cuts(text) :
                    d > c /\ \A e \in Cuts(text) : e > c => d <= e
    IN  SubSeq(text, c + 1, next - 1)

\* the eligible author a piece names once trimmed (None when it names none):
\* names are single letters, so the piece is one letter among blanks
NamedBy(piece, eligible) ==
    LET letters == {k \in 1..Len(piece) : piece[k] # " "}
    IN  IF Cardinality(letters) = 1
           /\ \E k \in letters : piece[k] \in Range(eligible)
        THEN piece[CHOOSE k \in letters : TRUE]
        ELSE None

\* the ranking the claim describes for a text and the eligible authors
DescribedRanking(text, eligible) ==
    LET starts == Cuts(text) \ {Len(text) + 1}
        name(c) == NamedBy(PieceAfter(text, c), eligible)
        first == {c \in starts :
                     /\ name(c) # None
                     /\ \A d \in starts : d < c => name(d) # name(c)}
        order == Ascending(first)
        kept == [j \in 1..Len(order) |-> name(order[j])]
    IN  kept \o SelectSeq(eligible, LAMBDA a : a \notin Range(kept))

\* C22: the ranking returned equals the tokens of the text (split on commas
\* and newlines, trimmed) that name an eligible author, in first-seen order
\* without repeats, followed by the eligible authors not among them, in
\* roster order.
C22_RankingAsDescribed ==
    pc = "parsed" => ranking = DescribedRanking(raw, authors)

\* the reply ", Z": an empty token, then a token to trim that names Z
C22_Witness ==
    /\ pc = "parsed"
    /\ raw = <<",", " ", "Z">>
    /\ authors = <<"X", "Y", "Z">>
    /\ ranking = <<"Z", "X", "Y">>

\* the number of votes of the round that hold the agent at a position
HeldAt(vs, agent, position) ==
    Cardinality({k \in 1..Len(vs) : /\ position <= Len(vs[k].ranking)
                                    /\ vs[k].ranking[position] = agent})

RECURSIVE PositionSumUpTo(_, _, _)
PositionSumUpTo(vs, agent, position) ==
    IF position = 0 THEN 0
    ELSE position * HeldAt(vs, agent, position) + PositionSumUpTo(vs, agent, position - 1)

\* the sum, over the votes, of the 1-based positions at which a ranking
\* holds the agent (rank 1 contributes 1 point)
PositionSum(vs, agent) == PositionSumUpTo(vs, agent, Len(NameOrder))

\* C23: the score of an agent is the sum over the round's votes of its
\* 1-based position in the ranking, and the agent removed by elimination
\* is one with the highest score of the round.
C23_RemovedHasHighestScore ==
    [][(pc = "eliminate" /\ pc' # "raised" /\ CanEliminate(personalities)) =>
          /\ ScoreTable(votes) = [a \in AgentNames |-> PositionSum(votes, a)]
          /\ \E a \in Range(personalities) :
                /\ personalities' = SelectSeq(personalities, LAMBDA p : p # a)
                /\ \A b \in Range(personalities) :
                      PositionSum(votes, b) <= PositionSum(votes, a)]_vars

\* four agents, every vote of the first round ranks W last: W, alone with
\* the highest sum, is removed and three agents are left
C23_Witness ==
    /\ pc = "loop" /\ i = 1 /\ elimination
    /\ state_personalities = NameOrder
    /\ \A a \in {"X", "Y", "Z"} :
          PositionSum(iterations[1].votes, a) < PositionSum(iterations[1].votes, "W")
    /\ personalities = <<"X", "Y", "Z">>

\* C24: the agents of round 0 are prompted with no prior arguments, and
\* the agents of a round i > 0 with exactly the arguments recorded for
\* round i - 1, those of an agent eliminated at the end of round i - 1
\* included, and none of an earlier round.
C24_PromptedWithPreviousRound ==
    [][(pc = "arguments" /\ pc' = "arguments" /\ arguments' # arguments) =>
          IF i = 0 THEN prior_arguments' = <<>>
          ELSE /\ iterations[i].iteration = i - 1
               /\ prior_arguments' = iterations[i].arguments
               /\ \A k \in 1..Len(prior_arguments') : prior_arguments'[k].iteration = i - 1]_vars

\* the third round of four agents: W left after round 0 and Z after round 1;
\* X is prompted with the three arguments of round 1, Z's among them
C24_Witness ==
    /\ pc = "arguments" /\ i = 2 /\ Len(arguments) = 1
    /\ state_personalities = NameOrder
    /\ personalities = <<"X", "Y">>
    /\ [k \in 1..Len(prior_arguments) |-> prior_arguments[k].author] = <<"X", "Y", "Z">>
    /\ prior_arguments = iterations[2].arguments
    /\ Len(iterations[1].arguments) = 4

\* the authors of a round's arguments and the voters of its votes, in order
AuthorsOf(it) == [k \in 1..Len(it.arguments) |-> it.arguments[k].author]
VotersOf(it) == [k \in 1..Len(it.votes) |-> it.votes[k].voter]

\* C25: every recorded round holds one argument and one vote of each
\* member of the roster as it stood at the start of the round (member by
\* member, in roster order), each carrying the round's index; the roster
\* does not change between the start of a round and its record.
C25_OneArgumentAndVotePerMember ==
    /\ [][(pc \in {"arguments", "focus", "warn", "votes"}) =>
              (personalities' = personalities)]_vars
    /\ [][(pc = "votes" /\ pc' = "save") =>
              (AuthorsOf(iterations'[Len(iterations')]) = personalities)]_vars
    /\ [](\A n \in 1..Len(iterations) :
              /\ AuthorsOf(iterations[n]) = VotersOf(iterations[n])
              /\ \A k \in 1..Len(iterations[n].arguments) :
                    iterations[n].arguments[k].iteration = n - 1
              /\ \A k \in 1..Len(iterations[n].votes) :
                    iterations[n].votes[k].iteration = n - 1
              /\ iterations[n].iteration = n - 1)
    /\ [](iterations # <<>> => AuthorsOf(iterations[1]) = state_personalities)

\* two recorded rounds: four members argued and voted in round 0, the three
\* left after the elimination in round 1
C25_Witness ==
    /\ Len(iterations) = 2
    /\ VotersOf(iterations[1]) = NameOrder
    /\ VotersOf(iterations[2]) = <<"X", "Y", "Z">>
    /\ AuthorsOf(iterations[2]) = <<"X", "Y", "Z">>
    /\ personalities = <<"X", "Y", "Z">>
    /\ pc = "save"

\* the agents of recorded round n - 1 that the elimination at its end removed
Gone(n) ==
    IF n < Len(iterations)
    THEN Range(AuthorsOf(iterations[n])) \ Range(AuthorsOf(iterations[n + 1]))
    ELSE IF pc \in {"save", "eliminate"} \/ raised_at \in {"save", "eliminate"}
         THEN {}
         ELSE Range(AuthorsOf(iterations[n])) \ Range(personalities)

\* C26: an agent eliminated at the end of a round authors no argument and
\* casts no vote in any later round and is not on the roster again, while
\* it stays in DebateState.personalities and in the records of the rounds
\* up to its elimination, which are never modified.
C26_EliminatedNeverReturns ==
    /\ [][/\ state_personalities' = state_personalities
          /\ IsPrefix(iterations, iterations')]_vars
    /\ [](\A n \in 1..Len(iterations) : \A a \in Gone(n) :
              /\ a \notin Range(personalities)
              /\ \A m \in (n + 1)..Len(iterations) :
                    a \notin Range(AuthorsOf(iterations[m])) \cup Range(VotersOf(iterations[m]))
              /\ pc \in {"arguments", "focus", "warn", "votes"} =>
                    \A k \in 1..Len(arguments) : arguments[k].author # a
              /\ pc = "votes" => \A k \in 1..Len(votes) : votes[k].voter # a
              /\ a \in Range(state_personalities)
              /\ \A m \in 1..n : a \in Range(AuthorsOf(iterations[m])))

\* W left at the end of round 0 and Z at the end of round 1: round 2 is
\* argued and voted by X and Y alone, and all four are in state.personalities
C26_Witness ==
    /\ Len(iterations) = 3 /\ pc = "save"
    /\ Gone(1) = {"W"} /\ Gone(2) = {"Z"}
    /\ VotersOf(iterations[3]) = <<"X", "Y">>
    /\ state_personalities = NameOrder

\* C27: when every service call returns, run_debate terminates normally:
\* it returns the state with at least one recorded round and the judgment
\* set, and no exception leaves it.
C27_TerminatesNormally ==
    /\ [](pc # "raised")
    /\ <>(pc = "returned" /\ iterations # <<>> /\ judge_decision # None)

\* C28: once the handler of a WebSocket has ended on the client's
\* disconnect, the connection is not in active_connections, and no later
\* broadcast sends to it.
C28_DisconnectedNotActive ==
    /\ [](\A s \in DOMAIN handler :
              (handler[s] = "ended" /\ link[s] = "closed") =>
                  s \notin Range(active_connections))
    /\ [][\A s \in DOMAIN handler :
              (handler[s] = "ended" /\ link[s] = "closed" /\ broadcast_to' # broadcast_to) =>
                  s \notin Range(broadcast_to')]_vars

\* C29: no failure of the memory layer stops the council: no exception
\* leaves run_council_of_consciousness on a missing embedding, and the
\* council reaches its end with the closing phase produced and, when
\* enabled, the elimination evaluated.
C29_MemoryNeverRequired ==
    /\ [](~(pc = "raised" /\ emb = None))
    /\ <>(pc = "done" /\ step > Len(Program))

\* the options a caller was given are valid
ValidOptions(r) ==
    /\ r.question # ""
    /\ 1 <= r.config.min_iterations
    /\ r.config.min_iterations <= r.config.max_iterations

\* C30: the `debate` command and POST /api/debates/start, given a
\* non-empty question and valid options, have their call of run_debate
\* accepted and reach the round loop with the requested configuration and
\* elimination flag, instead of ending in an error before any round.
C30_CallersStartRoundLoop ==
    (caller \in {"debate", "start_debate_api"} /\ ValidOptions(request)) =>
        /\ [](pc # "type_error" /\ response = None)
        /\ <>(pc = "loop" /\ config = request.config /\ elimination = request.elimination)

====
